---- MODULE Spec2Model ----
(***************************************************************************)
(* usbreset: resolve a USB device identifier against the sysfs registry    *)
(* and issue USBDEVFS_RESET on its usbdevfs node (src/src/main.rs).        *)
(*                                                                         *)
(* Text is a sequence of one-character strings, so that trimming, parsing  *)
(* and formatting are computed character by character as the code does.    *)
(***************************************************************************)
EXTENDS Integers, Sequences, FiniteSets, TLC

VARIABLES
    args,        \* env::args().skip(1): the argument strings
    registry,    \* the entries read_dir(USBSYSFS_PATH) yields, in its order
    pc,          \* position of the run: main, find_device, scan, reset_device, ioctl, exit
    identifier,  \* the UsbDeviceIdentifier main built
    idx,         \* index of the registry entry find_device is at (0: not listed yet)
    usbdev,      \* the UsbDevFsEntry find_device returned
    openPath,    \* the path reset_device opened (or tried to open)
    ioctlCalls,  \* the control calls issued: <<[path, cmd, res]>>
    stdout,      \* the lines printed
    result       \* what main returns

vars == <<args, registry, pc, identifier, idx, usbdev, openPath, ioctlCalls, stdout, result>>

(***************************************************************************)
(* Bounds of the model                                                     *)
(***************************************************************************)
MaxEntries == 2   \* registry entries per run
MaxArgLen == 3    \* length of the arbitrary argument strings
MaxSegLen == 5    \* digits of the long numeric segment of a pair argument
MaxTrail == 2     \* length of the whitespace run after an attribute value

(***************************************************************************)
(* Text helpers                                                            *)
(***************************************************************************)
NonEmptyStrings(chars, n) == UNION {[1..k -> chars] : k \in 1..n}

\* str::find of a one-character separator: index of its first occurrence, 0 if none
Find(s, c) ==
    IF \E i \in 1..Len(s) : s[i] = c
    THEN CHOOSE i \in 1..Len(s) : s[i] = c /\ \A j \in 1..(i - 1) : s[j] # c
    ELSE 0

LowerDigits == <<"0", "1", "2", "3", "4", "5", "6", "7", "8", "9", "a", "b", "c", "d", "e", "f">>

UpperDigits == <<"0", "1", "2", "3", "4", "5", "6", "7", "8", "9", "A", "B", "C", "D", "E", "F">>

\* char::to_digit(radix): the digit's value, -1 for None
to_digit(c, radix) ==
    IF \E i \in 1..radix : LowerDigits[i] = c
    THEN (CHOOSE i \in 1..radix : LowerDigits[i] = c) - 1
    ELSE IF \E i \in 1..radix : UpperDigits[i] = c
    THEN (CHOOSE i \in 1..radix : UpperDigits[i] = c) - 1
    ELSE -1

U16_MAX == 2^16 - 1

POk(v) == [ok |-> TRUE, val |-> v]

PErr == [ok |-> FALSE, val |-> 0]

\* mutant: the digit loop with wrapping arithmetic in place of the checked one
RECURSIVE from_digits_wrapping(_, _, _, _)
from_digits_wrapping(s, i, acc, radix) ==
    IF i > Len(s) THEN POk(acc)
    ELSE LET d == to_digit(s[i], radix) IN
         IF d < 0 THEN PErr
         ELSE from_digits_wrapping(s, i + 1, (acc * radix + d) % 2^16, radix)

\* the digit loop of u16::from_str_radix: checked multiply and add
RECURSIVE from_digits(_, _, _, _)
from_digits(s, i, acc, radix) ==
    IF i > Len(s) THEN POk(acc)
    ELSE LET d == to_digit(s[i], radix) IN
         IF d < 0 THEN PErr
         ELSE IF acc * radix + d > U16_MAX THEN PErr
         ELSE from_digits(s, i + 1, acc * radix + d, radix)

\* u16::from_str_radix / <u16 as FromStr>::from_str: empty, a lone sign, a '-',
\* a non-digit or an overflow is an error; one leading '+' is accepted
u16_from_str_radix(s, radix) ==
    IF s = <<>> THEN PErr
    ELSE IF Len(s) = 1 /\ s[1] \in {"+", "-"} THEN PErr
    ELSE IF s[1] = "+" THEN from_digits(s, 2, 0, radix)
    ELSE from_digits(s, 1, 0, radix)

(***************************************************************************)
(* UsbDeviceIdentifier and io::Result                                      *)
(***************************************************************************)
NoIdentifier == [type |-> "None", a |-> 0, b |-> 0, name |-> <<>>]

BusDev(bus, dev) == [type |-> "BusDev", a |-> bus, b |-> dev, name |-> <<>>]

VendorProduct(vid, pid) == [type |-> "VendorProduct", a |-> vid, b |-> pid, name |-> <<>>]

ProductName(name) == [type |-> "ProductName", a |-> 0, b |-> 0, name |-> name]

\* an io::Error: its kind, and the OS error code it carries (0: built from a
\* bare ErrorKind, carrying nothing)
IoError(kind, os) == [kind |-> kind, os |-> os]

Running == IoError("Running", 0)

Success == IoError("Ok", 0)

(***************************************************************************)
(* Identifier parser: main, lines 159-177                                  *)
(***************************************************************************)
\* sscanf!(s, "{T}<sep>{T}", x, y): the text before the first separator and
\* the rest after it; an error when the separator is not found
sscanf_pair(s, sep) ==
    LET i == Find(s, sep) IN
    IF i = 0 THEN [ok |-> FALSE, first |-> <<>>, second |-> <<>>]
    ELSE [ok |-> TRUE, first |-> SubSeq(s, 1, i - 1), second |-> SubSeq(s, i + 1, Len(s))]

\* mutant: a '/' whose two sides are not both u16 fails the parse
ParseIdentifier_SlashStrict(arg) ==
    LET bd  == sscanf_pair(arg, "/")
        bus == u16_from_str_radix(bd.first, 10)
        dev == u16_from_str_radix(bd.second, 10)
        vp  == sscanf_pair(arg, ":")
        vid == u16_from_str_radix(vp.first, 16)
        pid == u16_from_str_radix(vp.second, 16)
    IN  IF bd.ok
        THEN IF bus.ok /\ dev.ok
             THEN [ok |-> TRUE, id |-> BusDev(bus.val, dev.val), err |-> Running]
             ELSE [ok |-> FALSE, id |-> NoIdentifier, err |-> IoError("InvalidData", 0)]
        ELSE IF vp.ok
        THEN IF vid.ok /\ pid.ok
             THEN [ok |-> TRUE, id |-> VendorProduct(vid.val, pid.val), err |-> Running]
             ELSE [ok |-> FALSE, id |-> NoIdentifier, err |-> IoError("InvalidData", 0)]
        ELSE [ok |-> TRUE, id |-> ProductName(arg), err |-> Running]

\* [ok, id, err]: the identifier, or the error main returns
ParseIdentifier(arg) ==
    LET bd  == sscanf_pair(arg, "/")
        bus == u16_from_str_radix(bd.first, 10)
        dev == u16_from_str_radix(bd.second, 10)
        vp  == sscanf_pair(arg, ":")
        vid == u16_from_str_radix(vp.first, 16)
        pid == u16_from_str_radix(vp.second, 16)
    IN  IF bd.ok /\ bus.ok /\ dev.ok
        THEN [ok |-> TRUE, id |-> BusDev(bus.val, dev.val), err |-> Running]
        ELSE IF vp.ok
        THEN IF vid.ok /\ pid.ok
             THEN [ok |-> TRUE, id |-> VendorProduct(vid.val, pid.val), err |-> Running]
             ELSE [ok |-> FALSE, id |-> NoIdentifier, err |-> IoError("InvalidData", 0)]
        ELSE [ok |-> TRUE, id |-> ProductName(arg), err |-> Running]

Line(text, arg) == [text |-> text, arg |-> arg]

Main_ParseArgs ==
    /\ pc = "main"
    /\ IF Len(args) < 1
       THEN /\ stdout' = stdout \o <<Line("USB DEVICE RESET", 0), Line("No usb device specified!", 0)>>
            /\ result' = IoError("InvalidInput", 0)
            /\ pc' = "exit"
            /\ UNCHANGED identifier
       ELSE LET p == ParseIdentifier(args[1]) IN
            /\ stdout' = stdout \o <<Line("USB DEVICE RESET", 0)>>
            /\ identifier' = p.id
            /\ result' = p.err
            /\ pc' = IF p.ok THEN "find_device" ELSE "exit"
    /\ UNCHANGED <<args, registry, idx, usbdev, openPath, ioctlCalls>>

(***************************************************************************)
(* The sysfs registry: one entry per directory under USBSYSFS_PATH, each   *)
(* attribute a file that is absent (the read fails) or holds some text     *)
(***************************************************************************)
Attr(text) == [present |-> TRUE, text |-> text]

Missing == [present |-> FALSE, text |-> <<>>]

Entry(b, d, v, p, n) ==
    [dirErr |-> FALSE, busnum |-> b, devnum |-> d, idVendor |-> v, idProduct |-> p, product |-> n]

\* a directory entry read_dir yields as an Err
DirErrEntry ==
    [dirErr |-> TRUE, busnum |-> Missing, devnum |-> Missing, idVendor |-> Missing,
     idProduct |-> Missing, product |-> Missing]

NL == <<"\n">>

Vid1 == <<"1", "a", "2", "b">>

Pid1 == <<"3", "c", "4", "d">>

Wid == <<"W", "i", "d">>

Hub == <<"H", "u", "b">>

EntrySet ==
    { Entry(Attr(<<"2">> \o NL), Attr(<<"5">> \o NL), Attr(Vid1 \o NL), Attr(Pid1 \o NL), Attr(Wid \o NL)),
      Entry(Attr(<<"1", "0", "0", "0">> \o NL), Attr(<<"7">> \o NL), Attr(Vid1 \o NL), Attr(Pid1 \o NL), Attr(Wid \o NL)),
      Entry(Attr(<<"3">> \o NL), Attr(<<"5">> \o NL), Attr(<<"1", "A", "2", "B">> \o NL), Attr(<<"3", "C", "4", "D">> \o NL), Missing),
      Entry(Attr(<<"2">>), Attr(<<"5">>), Attr(Vid1), Attr(Pid1), Attr(Wid)),
      Entry(Missing, Attr(<<"5">> \o NL), Attr(<<"z", "z">> \o NL), Attr(Pid1 \o NL), Attr(Wid \o NL)),
      Entry(Attr(<<"2">> \o NL), Attr(<<"x">> \o NL), Attr(Vid1 \o NL), Attr(Pid1 \o NL), Attr(Wid \o NL)),
      Entry(Attr(<<"2">> \o NL), Attr(<<"7">> \o NL), Attr(<<"z", "z">> \o NL), Attr(Pid1 \o NL), Attr(Hub \o NL)),
      Entry(Attr(<<"2">> \o NL), Attr(<<"7">> \o NL), Attr(<<"z", "z">> \o NL), Missing, Attr(Hub \o NL)),
      Entry(Attr(<<"2">> \o NL), Attr(<<"7">> \o NL), Attr(Vid1 \o NL), Attr(<<"3", "c", "4", "d", "5">> \o NL), Attr(Hub \o NL)),
      Entry(Attr(<<"4">> \o NL), Attr(<<"1">> \o NL), Attr(<<"0", "0", "0", "1">> \o NL), Attr(<<"0", "0", "0", "2">> \o NL), Attr(Hub \o NL)),
      DirErrEntry }

Registries(n) == UNION {[1..k -> EntrySet] : k \in 0..n}

(***************************************************************************)
(* sysfs_attr_raw, sysfs_attr: lines 68-86                                 *)
(***************************************************************************)
WHITESPACE_CHARS == {"\n", "\t", " "}

\* String::pop after one ends_with test: at most one character goes
TrimOnce(s) ==
    IF Len(s) > 0 /\ s[Len(s)] \in WHITESPACE_CHARS THEN SubSeq(s, 1, Len(s) - 1) ELSE s

\* [ok, text]: the read fails when the attribute file is absent
sysfs_attr_raw(e, attr) ==
    IF e[attr].present THEN [ok |-> TRUE, text |-> TrimOnce(e[attr].text)]
    ELSE [ok |-> FALSE, text |-> <<>>]

\* sysfs_attr::<u16, _>: the raw text parsed in base 10
sysfs_attr(e, attr) ==
    LET raw == sysfs_attr_raw(e, attr) IN
    IF raw.ok THEN u16_from_str_radix(raw.text, 10) ELSE PErr

(***************************************************************************)
(* find_device: lines 88-126                                               *)
(***************************************************************************)
UsbDevFsEntry(bus, dev) == [bus |-> bus, dev |-> dev]

NoDevice == [bus |-> -1, dev |-> -1]

Continue == [act |-> "continue", dev |-> NoDevice, err |-> Running]

Return(bus, dev) == [act |-> "return", dev |-> UsbDevFsEntry(bus, dev), err |-> Running]

Abort(kind) == [act |-> "error", dev |-> NoDevice, err |-> IoError(kind, 0)]

\* mutant: BusDev matches on the bus number alone
MatchArm_BusOnly(id, e, e_bus, e_dev) ==
    CASE id.type = "BusDev" ->
            IF e_bus = id.a THEN Return(e_bus, e_dev) ELSE Continue
      [] id.type = "VendorProduct" ->
            LET vid_str == sysfs_attr_raw(e, "idVendor")
                pid_str == sysfs_attr_raw(e, "idProduct")
                cur_vid == u16_from_str_radix(vid_str.text, 16)
                cur_pid == u16_from_str_radix(pid_str.text, 16)
            IN  IF ~vid_str.ok THEN Continue
                ELSE IF ~pid_str.ok THEN Continue
                ELSE IF ~cur_vid.ok THEN Abort("InvalidData")
                ELSE IF ~cur_pid.ok THEN Abort("InvalidData")
                ELSE IF cur_vid.val = id.a /\ cur_pid.val = id.b THEN Return(e_bus, e_dev)
                ELSE Continue
      [] OTHER ->
            LET cur_name == sysfs_attr_raw(e, "product") IN
            IF ~cur_name.ok THEN Continue
            ELSE IF cur_name.text = id.name THEN Return(e_bus, e_dev)
            ELSE Continue

\* mutant: a malformed idVendor or idProduct skips the entry, as a missing one does
MatchArm_SkipMalformed(id, e, e_bus, e_dev) ==
    CASE id.type = "BusDev" ->
            IF e_bus = id.a /\ e_dev = id.b THEN Return(e_bus, e_dev) ELSE Continue
      [] id.type = "VendorProduct" ->
            LET vid_str == sysfs_attr_raw(e, "idVendor")
                pid_str == sysfs_attr_raw(e, "idProduct")
                cur_vid == u16_from_str_radix(vid_str.text, 16)
                cur_pid == u16_from_str_radix(pid_str.text, 16)
            IN  IF ~vid_str.ok THEN Continue
                ELSE IF ~pid_str.ok THEN Continue
                ELSE IF ~cur_vid.ok THEN Continue
                ELSE IF ~cur_pid.ok THEN Continue
                ELSE IF cur_vid.val = id.a /\ cur_pid.val = id.b THEN Return(e_bus, e_dev)
                ELSE Continue
      [] OTHER ->
            LET cur_name == sysfs_attr_raw(e, "product") IN
            IF ~cur_name.ok THEN Continue
            ELSE IF cur_name.text = id.name THEN Return(e_bus, e_dev)
            ELSE Continue

\* the match on the identifier, lines 96-122
MatchArm(id, e, e_bus, e_dev) ==
    CASE id.type = "BusDev" ->
            IF e_bus = id.a /\ e_dev = id.b THEN Return(e_bus, e_dev) ELSE Continue
      [] id.type = "VendorProduct" ->
            LET vid_str == sysfs_attr_raw(e, "idVendor")
                pid_str == sysfs_attr_raw(e, "idProduct")
                cur_vid == u16_from_str_radix(vid_str.text, 16)
                cur_pid == u16_from_str_radix(pid_str.text, 16)
            IN  IF ~vid_str.ok THEN Continue
                ELSE IF ~pid_str.ok THEN Continue
                ELSE IF ~cur_vid.ok THEN Abort("InvalidData")
                ELSE IF ~cur_pid.ok THEN Abort("InvalidData")
                ELSE IF cur_vid.val = id.a /\ cur_pid.val = id.b THEN Return(e_bus, e_dev)
                ELSE Continue
      [] OTHER ->
            LET cur_name == sysfs_attr_raw(e, "product") IN
            IF ~cur_name.ok THEN Continue
            ELSE IF cur_name.text = id.name THEN Return(e_bus, e_dev)
            ELSE Continue

\* mutant: an unparseable busnum or devnum ends the resolution with InvalidData
LoopBody_AbortOnBadNumber(id, e) ==
    LET e_bus == sysfs_attr(e, "busnum")
        e_dev == sysfs_attr(e, "devnum")
    IN  IF e.dirErr THEN Continue
        ELSE IF ~e.busnum.present \/ ~e.devnum.present THEN Continue
        ELSE IF ~e_bus.ok \/ ~e_dev.ok THEN Abort("InvalidData")
        ELSE MatchArm(id, e, e_bus.val, e_dev.val)

\* one iteration of the for loop, lines 90-122
LoopBody(id, e) ==
    LET e_bus == sysfs_attr(e, "busnum")
        e_dev == sysfs_attr(e, "devnum")
    IN  IF e.dirErr THEN Continue
        ELSE IF ~e_bus.ok THEN Continue
        ELSE IF ~e_dev.ok THEN Continue
        ELSE MatchArm(id, e, e_bus.val, e_dev.val)

\* errno of a failing filesystem call, and the ErrorKind std maps it to
OsErrnos == {2, 13}

OsError(errno) == IoError(IF errno = 2 THEN "NotFound" ELSE "PermissionDenied", errno)

\* read_dir(USBSYSFS_PATH)?, line 89: the listing, or the OS's error
FindDevice_ReadDir ==
    /\ pc = "find_device"
    /\ \E errno \in {0} \cup OsErrnos :
          IF errno = 0
          THEN /\ pc' = "scan"
               /\ idx' = 1
               /\ UNCHANGED result
          ELSE /\ pc' = "exit"
               /\ result' = OsError(errno)
               /\ UNCHANGED idx
    /\ UNCHANGED <<args, registry, identifier, usbdev, openPath, ioctlCalls, stdout>>

FindDevice_Step ==
    /\ pc = "scan"
    /\ idx <= Len(registry)
    /\ LET r == LoopBody(identifier, registry[idx]) IN
          /\ pc' = CASE r.act = "continue" -> "scan"
                     [] r.act = "return" -> "reset_device"
                     [] OTHER -> "exit"
          /\ idx' = IF r.act = "continue" THEN idx + 1 ELSE idx
          /\ usbdev' = r.dev
          /\ result' = r.err
    /\ UNCHANGED <<args, registry, identifier, openPath, ioctlCalls, stdout>>

\* line 125: the listing is exhausted
FindDevice_NotFound ==
    /\ pc = "scan"
    /\ idx > Len(registry)
    /\ pc' = "exit"
    /\ result' = IoError("NotFound", 0)
    /\ UNCHANGED <<args, registry, identifier, idx, usbdev, openPath, ioctlCalls, stdout>>

(***************************************************************************)
(* The ioctl request encoding: lines 15-49                                 *)
(***************************************************************************)
_IOC_NRBITS == 8

_IOC_TYPEBITS == 8

_IOC_SIZEBITS == 14

_IOC_DIRBITS == 2

_IOC_NRSHIFT == 0

\* mutant: the type field not shifted past the number field
_IOC_TYPESHIFT_Unshifted == _IOC_NRSHIFT

_IOC_TYPESHIFT == _IOC_NRSHIFT + _IOC_NRBITS

_IOC_SIZESHIFT == _IOC_TYPESHIFT + _IOC_TYPEBITS

_IOC_DIRSHIFT == _IOC_SIZESHIFT + _IOC_SIZEBITS

_IOC_NONE == 0

\* a << n and a | b on usize values
Shl(a, n) == a * 2^n

RECURSIVE BitOr(_, _)
BitOr(a, b) ==
    IF a = 0 THEN b
    ELSE IF b = 0 THEN a
    ELSE (IF a % 2 = 1 \/ b % 2 = 1 THEN 1 ELSE 0) + 2 * BitOr(a \div 2, b \div 2)

_IOC(dir, type, nr, size) ==
    BitOr(BitOr(BitOr(Shl(dir, _IOC_DIRSHIFT), Shl(type, _IOC_TYPESHIFT)), Shl(nr, _IOC_NRSHIFT)),
          Shl(size, _IOC_SIZESHIFT))

_IO(type, nr) == _IOC(_IOC_NONE, type, nr, 0)

\* b'U'
ASCII_U == 85

USBDEVFS_RESET == _IO(ASCII_U, 20)

\* the request as the build passes it: as libc::c_int (musl), as libc::c_ulong (otherwise)
\* (c_int keeps the low 32 bits, two's complement; usize and c_ulong have the same width)
AsCInt(v) ==
    LET hi == (v \div 2^16) % 2^16
        lo == v % 2^16
    IN  IF hi < 2^15 THEN hi * 2^16 + lo ELSE (hi - 2^16) * 2^16 + lo

AsCUlong(v) == v

(***************************************************************************)
(* reset_device: lines 128-148                                             *)
(***************************************************************************)
USBDEVFS_PATH == <<"/", "d", "e", "v", "/", "b", "u", "s", "/", "u", "s", "b", "/">>

NoPath == <<>>

\* Display of a u16, without padding
RECURSIVE ToDecimal(_)
ToDecimal(n) ==
    IF n < 10 THEN <<LowerDigits[n + 1]>>
    ELSE ToDecimal(n \div 10) \o <<LowerDigits[(n % 10) + 1]>>

\* mutant: exactly three digits, the number cut to its last three
Fmt03_Cut(n) ==
    LET d == ToDecimal(n % 1000) IN
    IF Len(d) >= 3 THEN d ELSE [i \in 1..(3 - Len(d)) |-> "0"] \o d

\* "{:03}": zeros on the left up to a width of 3, never a cut
Fmt03(n) ==
    LET d == ToDecimal(n) IN
    IF Len(d) >= 3 THEN d ELSE [i \in 1..(3 - Len(d)) |-> "0"] \o d

\* format!("{}/{:03}/{:03}", USBDEVFS_PATH, bus, dev)
DevicePath(dev) == USBDEVFS_PATH \o <<"/">> \o Fmt03(dev.bus) \o <<"/">> \o Fmt03(dev.dev)

\* lines 129-130: the open, or the OS's error returned by `?`
ResetDevice_Open ==
    /\ pc = "reset_device"
    /\ openPath' = DevicePath(usbdev)
    /\ \E errno \in {0} \cup OsErrnos :
          IF errno = 0
          THEN /\ pc' = "ioctl"
               /\ UNCHANGED result
          ELSE /\ pc' = "exit"
               /\ result' = OsError(errno)
    /\ UNCHANGED <<args, registry, identifier, idx, usbdev, ioctlCalls, stdout>>

IoctlResults == {-1, 0, 1}

\* mutant: a failed control call is issued a second time
ResetDevice_Ioctl_Retry ==
    /\ pc = "ioctl"
    /\ \E res \in IoctlResults, res2 \in IoctlResults :
          LET call(r) == [path |-> openPath, cmd |-> AsCUlong(USBDEVFS_RESET), res |-> r]
              last == IF res = 0 THEN res ELSE res2
          IN
          /\ ioctlCalls' = IF res = 0 THEN ioctlCalls \o <<call(res)>>
                                       ELSE ioctlCalls \o <<call(res), call(res2)>>
          /\ IF last = 0
             THEN /\ stdout' = Append(stdout, Line("USB reset successful", 0))
                  /\ result' = Success
             ELSE /\ stdout' = Append(stdout, Line("USB reset failed: ", last))
                  /\ result' = IoError("Other", 0)
    /\ pc' = "exit"
    /\ UNCHANGED <<args, registry, identifier, idx, usbdev, openPath>>

\* mutant: only a negative status is a failure
ResetDevice_Ioctl_NegativeFails ==
    /\ pc = "ioctl"
    /\ \E res \in IoctlResults :
          /\ ioctlCalls' = Append(ioctlCalls, [path |-> openPath, cmd |-> AsCUlong(USBDEVFS_RESET), res |-> res])
          /\ IF res >= 0
             THEN /\ stdout' = Append(stdout, Line("USB reset successful", 0))
                  /\ result' = Success
             ELSE /\ stdout' = Append(stdout, Line("USB reset failed: ", res))
                  /\ result' = IoError("Other", 0)
    /\ pc' = "exit"
    /\ UNCHANGED <<args, registry, identifier, idx, usbdev, openPath>>

\* lines 132-147: one ioctl, then the outcome from its status
ResetDevice_Ioctl ==
    /\ pc = "ioctl"
    /\ \E res \in IoctlResults, musl \in BOOLEAN :
          LET cmd == IF musl THEN AsCInt(USBDEVFS_RESET) ELSE AsCUlong(USBDEVFS_RESET) IN
          /\ ioctlCalls' = Append(ioctlCalls, [path |-> openPath, cmd |-> cmd, res |-> res])
          /\ IF res = 0
             THEN /\ stdout' = Append(stdout, Line("USB reset successful", 0))
                  /\ result' = Success
             ELSE /\ stdout' = Append(stdout, Line("USB reset failed: ", res))
                  /\ result' = IoError("Other", 0)
    /\ pc' = "exit"
    /\ UNCHANGED <<args, registry, identifier, idx, usbdev, openPath>>

(***************************************************************************)
(* A whole run                                                             *)
(***************************************************************************)
MainArgs ==
    { <<>>,
      << <<"2", "/", "5">> >>,
      << <<"2", "/", "5">>, Wid >>,
      << <<"1", "0", "0", "0", "/", "7">> >>,
      << <<"2", "/", "7">> >>,
      << <<"9", "/", "9">> >>,
      << Vid1 \o <<":">> \o Pid1 >>,
      << <<"1", ":", "2">> >>,
      << <<"z", "z", ":", "1">> >>,
      << Wid >>,
      << Hub >>,
      << <<"N", "o">> >> }

InitRun ==
    /\ pc = "main"
    /\ identifier = NoIdentifier
    /\ idx = 0
    /\ usbdev = NoDevice
    /\ openPath = NoPath
    /\ ioctlCalls = <<>>
    /\ stdout = <<>>
    /\ result = Running

Init ==
    /\ args \in MainArgs
    /\ registry \in Registries(MaxEntries)
    /\ InitRun

Next ==
    \/ Main_ParseArgs
    \/ FindDevice_ReadDir
    \/ FindDevice_Step
    \/ FindDevice_NotFound
    \/ ResetDevice_Open
    \/ ResetDevice_Ioctl

Spec == Init /\ [][Next]_vars

(***************************************************************************)
(* The identifier parser alone, over many argument strings                 *)
(***************************************************************************)
SmallChars == {"1", "a", "g", "/", ":"}

SegChars == {"0", "3", "5", "6"}

\* a long numeric segment and a one-digit one, either way round, around '/' or ':'
PairArgs ==
    LET long == NonEmptyStrings(SegChars, MaxSegLen) IN
    UNION { {l \o <<sep>> \o <<c>>, <<c>> \o <<sep>> \o l} :
            l \in long, c \in SegChars, sep \in {"/", ":"} }

\* nothing on one side of the first ':': what sscanf! makes of an empty capture
\* is decided inside the scanf crate, and such arguments are left out
EmptySided(s) ==
    LET i == Find(s, ":") IN i > 0 /\ (i = 1 \/ i = Len(s))

ParserArgs == {a \in NonEmptyStrings(SmallChars, MaxArgLen) \cup PairArgs : ~EmptySided(a)}

InitParse ==
    /\ args \in {<<a>> : a \in ParserArgs}
    /\ registry = <<>>
    /\ InitRun

NextParse == Main_ParseArgs

SpecParse == InitParse /\ [][NextParse]_vars

(***************************************************************************)
(* Runs over one entry whose attribute files end in a run of whitespace    *)
(***************************************************************************)
WsRuns == NonEmptyStrings(WHITESPACE_CHARS, MaxTrail)

AttrValues ==
    [busnum |-> <<"2">>, devnum |-> <<"5">>, idVendor |-> Vid1, idProduct |-> Pid1, product |-> Wid]

AttrNames == {"busnum", "devnum", "idVendor", "idProduct", "product"}

\* every attribute its value and a newline, but `attr`, whose value is followed by `run`
TrailEntry(attr, run) ==
    [a \in AttrNames |-> Attr(AttrValues[a] \o (IF a = attr THEN run ELSE NL))]
        @@ [dirErr |-> FALSE]

AttrArgs ==
    { << <<"2", "/", "5">> >>, << Vid1 \o <<":">> \o Pid1 >>, << Wid >>, << <<"9", "/", "9">> >> }

InitAttr ==
    /\ args \in AttrArgs
    /\ registry \in {<<TrailEntry(a, w)>> : a \in AttrNames, w \in WsRuns}
    /\ InitRun

SpecAttr == InitAttr /\ [][Next]_vars

(***************************************************************************)
(* Vocabulary of the properties                                            *)
(***************************************************************************)
\* find_device listed the registry and has returned
FindDone == idx >= 1 /\ pc # "scan"

\* entry i went through the loop body: passed over, or the one the scan ended at
Examined(i) == i \in 1..Len(registry) /\ idx >= 1 /\ (i < idx \/ (i = idx /\ pc # "scan"))

\* the scan ended at entry i
EndedAt(i) == idx = i /\ pc # "scan"

Min(S) == CHOOSE x \in S : \A y \in S : x <= y

NumbersOk(e) == sysfs_attr(e, "busnum").ok /\ sysfs_attr(e, "devnum").ok

BusOf(e) == sysfs_attr(e, "busnum").val

DevOf(e) == sysfs_attr(e, "devnum").val

HexOf(e, attr) == u16_from_str_radix(sysfs_attr_raw(e, attr).text, 16)

\* the attribute is there and its value is no base-16 u16
BadHex(e, attr) == e[attr].present /\ ~HexOf(e, attr).ok

\* entry e is one the identifier names
Matches(id, e) ==
    /\ NumbersOk(e)
    /\ CASE id.type = "BusDev" -> BusOf(e) = id.a /\ DevOf(e) = id.b
         [] id.type = "VendorProduct" ->
                /\ e.idVendor.present /\ e.idProduct.present
                /\ HexOf(e, "idVendor") = POk(id.a)
                /\ HexOf(e, "idProduct") = POk(id.b)
         [] id.type = "ProductName" ->
                e.product.present /\ sysfs_attr_raw(e, "product").text = id.name
         [] OTHER -> FALSE

WellFormed(reg) ==
    \A i \in 1..Len(reg) : ~BadHex(reg[i], "idVendor") /\ ~BadHex(reg[i], "idProduct")

IsDigits(s, radix) == s # <<>> /\ \A i \in 1..Len(s) : to_digit(s[i], radix) >= 0

\* the number a digit string writes, however long
RECURSIVE Value(_, _)
Value(s, radix) ==
    IF s = <<>> THEN 0
    ELSE radix * Value(SubSeq(s, 1, Len(s) - 1), radix) + to_digit(s[Len(s)], radix)

Fits16(s, radix) == IsDigits(s, radix) /\ Value(s, radix) < 2^16

Left(s, i) == SubSeq(s, 1, i - 1)

Right(s, i) == SubSeq(s, i + 1, Len(s))

Arg == args[1]

Parsed == pc # "main" /\ Len(args) >= 1

ParseFailed == pc = "exit" /\ idx = 0 /\ identifier = NoIdentifier /\ result.kind \notin {"Running", "Ok"}

(***************************************************************************)
(* C1: resolving BusDev{bus, dev} returns the first entry, in enumeration  *)
(* order, whose parsed busnum and devnum both equal the target, carrying   *)
(* exactly those two numbers; entries whose busnum or devnum is missing or *)
(* unparseable are skipped, and cause neither an error nor a match.        *)
(***************************************************************************)
C1_BusDevFirstMatch ==
    (FindDone /\ identifier.type = "BusDev") =>
        LET M == {i \in 1..Len(registry) :
                     /\ NumbersOk(registry[i])
                     /\ BusOf(registry[i]) = identifier.a
                     /\ DevOf(registry[i]) = identifier.b}
        IN  IF M = {}
            THEN usbdev = NoDevice /\ pc = "exit" /\ result = IoError("NotFound", 0)
                 /\ idx = Len(registry) + 1
            ELSE usbdev = UsbDevFsEntry(identifier.a, identifier.b) /\ idx = Min(M)

\* a skipped entry (busnum missing or devnum unparseable) came before the match
C1_Witness ==
    /\ FindDone /\ identifier.type = "BusDev"
    /\ Len(registry) = 2 /\ idx = 2
    /\ ~NumbersOk(registry[1]) /\ ~registry[1].dirErr
    /\ usbdev = UsbDevFsEntry(2, 5)

(***************************************************************************)
(* C2 as stated: resolving by VendorProduct, an examined entry with        *)
(* parseable busnum and devnum whose idVendor or idProduct is present but  *)
(* no valid base-16 16-bit value ends the resolution with InvalidData.     *)
(***************************************************************************)
C2_AnyMalformedAborts ==
    \A i \in 1..Len(registry) :
        (/\ identifier.type = "VendorProduct"
         /\ Examined(i)
         /\ NumbersOk(registry[i])
         /\ (BadHex(registry[i], "idVendor") \/ BadHex(registry[i], "idProduct")))
        => (EndedAt(i) /\ pc = "exit" /\ result = IoError("InvalidData", 0))

(***************************************************************************)
(* C2 amended: the entry ends the resolution with InvalidData when both    *)
(* idVendor and idProduct are present and either is malformed; an entry    *)
(* with either attribute missing is skipped, even if the other is          *)
(* malformed.                                                              *)
(***************************************************************************)
C2_BothPresentMalformedAborts ==
    \A i \in 1..Len(registry) :
        (/\ identifier.type = "VendorProduct"
         /\ Examined(i)
         /\ NumbersOk(registry[i]))
        => /\ (/\ registry[i].idVendor.present /\ registry[i].idProduct.present
               /\ (BadHex(registry[i], "idVendor") \/ BadHex(registry[i], "idProduct")))
              => (EndedAt(i) /\ pc = "exit" /\ result = IoError("InvalidData", 0))
           /\ (~registry[i].idVendor.present \/ ~registry[i].idProduct.present)
              => i < idx

\* a malformed idVendor beside a missing idProduct was skipped, and the next
\* entry's malformed idVendor ended the resolution
C2_Witness ==
    /\ identifier.type = "VendorProduct"
    /\ Len(registry) = 2 /\ EndedAt(2)
    /\ NumbersOk(registry[1]) /\ BadHex(registry[1], "idVendor") /\ ~registry[1].idProduct.present
    /\ NumbersOk(registry[2]) /\ BadHex(registry[2], "idVendor") /\ registry[2].idProduct.present
    /\ result = IoError("InvalidData", 0)

(***************************************************************************)
(* C3: for every identifier variant, when the registry is well formed (no  *)
(* idVendor or idProduct present but malformed) and no entry matches,      *)
(* find_device examines all entries and fails with NotFound.               *)
(***************************************************************************)
C3_NoMatchNotFound ==
    (/\ FindDone
     /\ WellFormed(registry)
     /\ \A i \in 1..Len(registry) : ~Matches(identifier, registry[i]))
    => (/\ pc = "exit" /\ usbdev = NoDevice
        /\ result = IoError("NotFound", 0)
        /\ idx = Len(registry) + 1
        /\ openPath = NoPath /\ ioctlCalls = <<>>)

\* two real devices, neither the one named
C3_Witness ==
    /\ FindDone /\ WellFormed(registry)
    /\ Len(registry) = 2
    /\ \A i \in 1..2 : NumbersOk(registry[i]) /\ ~Matches(identifier, registry[i])
    /\ identifier.type = "VendorProduct"
    /\ result = IoError("NotFound", 0)

(***************************************************************************)
(* C4 as stated: an attribute value is trimmed of its whole trailing run   *)
(* of space, tab and newline before it is parsed or compared, so an entry  *)
(* whose values, read without their trailing runs, are the ones the        *)
(* identifier names is the entry find_device returns.                      *)
(***************************************************************************)
RECURSIVE TrimRun(_)
TrimRun(s) ==
    IF Len(s) > 0 /\ s[Len(s)] \in {" ", "\t", "\n"} THEN TrimRun(SubSeq(s, 1, Len(s) - 1)) ELSE s

Trimmed(e, attr) == TrimRun(e[attr].text)

C4_WholeRunTrimmed ==
    \A i \in 1..Len(registry) :
        LET e == registry[i] IN
        (/\ Examined(i)
         /\ \A a \in AttrNames : e[a].present
         /\ Fits16(Trimmed(e, "busnum"), 10) /\ Fits16(Trimmed(e, "devnum"), 10)
         /\ CASE identifier.type = "BusDev" ->
                    /\ Value(Trimmed(e, "busnum"), 10) = identifier.a
                    /\ Value(Trimmed(e, "devnum"), 10) = identifier.b
              [] identifier.type = "VendorProduct" ->
                    /\ Fits16(Trimmed(e, "idVendor"), 16) /\ Fits16(Trimmed(e, "idProduct"), 16)
                    /\ Value(Trimmed(e, "idVendor"), 16) = identifier.a
                    /\ Value(Trimmed(e, "idProduct"), 16) = identifier.b
              [] OTHER -> Trimmed(e, "product") = identifier.name)
        => /\ EndedAt(i)
           /\ usbdev = UsbDevFsEntry(Value(Trimmed(e, "busnum"), 10), Value(Trimmed(e, "devnum"), 10))

(***************************************************************************)
(* C5 as stated: an argument <n>/<m> of decimal digits yields              *)
(* BusDev{bus: n, dev: m} when both fit 16 bits, and fails to parse when   *)
(* either does not.                                                        *)
(***************************************************************************)
IsNumberPair(s) ==
    \E i \in 1..Len(s) : s[i] = "/" /\ IsDigits(Left(s, i), 10) /\ IsDigits(Right(s, i), 10)

SlashAt(s) == CHOOSE i \in 1..Len(s) : s[i] = "/" /\ IsDigits(Left(s, i), 10) /\ IsDigits(Right(s, i), 10)

BothFit(s) == Fits16(Left(s, SlashAt(s)), 10) /\ Fits16(Right(s, SlashAt(s)), 10)

C5_OverflowFails ==
    (Parsed /\ IsNumberPair(Arg)) =>
        IF BothFit(Arg)
        THEN /\ pc # "exit"
             /\ identifier = BusDev(Value(Left(Arg, SlashAt(Arg)), 10), Value(Right(Arg, SlashAt(Arg)), 10))
        ELSE ParseFailed

(***************************************************************************)
(* C5 amended: an argument <n>/<m> of decimal digits yields                *)
(* BusDev{bus: n, dev: m} when both fit 16 bits; when either does not, the *)
(* argument is not a BusDev and, holding no ':', is accepted as the        *)
(* ProductName of the whole argument: the parser does not fail.            *)
(***************************************************************************)
C5_OverflowIsProductName ==
    (Parsed /\ IsNumberPair(Arg)) =>
        /\ pc # "exit"
        /\ IF BothFit(Arg)
           THEN identifier = BusDev(Value(Left(Arg, SlashAt(Arg)), 10), Value(Right(Arg, SlashAt(Arg)), 10))
           ELSE identifier = ProductName(Arg)

\* 65536/3 went through the parser
C5_Witness ==
    /\ Parsed /\ IsNumberPair(Arg) /\ ~BothFit(Arg)
    /\ Value(Left(Arg, SlashAt(Arg)), 10) = 2^16
    /\ identifier = ProductName(Arg)

(***************************************************************************)
(* C6 as stated: an argument that is neither a <uint16>/<uint16> pair nor  *)
(* a <hex>:<hex> pair is accepted as the ProductName of the whole          *)
(* argument, wherever its '/' or ':' are; it never makes the parser fail.  *)
(***************************************************************************)
IsU16Pair(s) ==
    \E i \in 1..Len(s) : s[i] = "/" /\ Fits16(Left(s, i), 10) /\ Fits16(Right(s, i), 10)

IsHexPair(s) ==
    \E i \in 1..Len(s) : s[i] = ":" /\ Fits16(Left(s, i), 16) /\ Fits16(Right(s, i), 16)

HasChar(s, c) == \E i \in 1..Len(s) : s[i] = c

C6_OtherwiseProductName ==
    (Parsed /\ ~IsU16Pair(Arg) /\ ~IsHexPair(Arg)) =>
        (pc # "exit" /\ identifier = ProductName(Arg))

(***************************************************************************)
(* C6 amended: an argument that is neither a <uint16>/<uint16> pair nor a  *)
(* <hex>:<hex> pair is accepted as the ProductName of the whole argument   *)
(* when it holds no ':' (whatever its '/'); when it holds a ':' with text  *)
(* on both sides of the first one, the parser fails with InvalidData.      *)
(***************************************************************************)
C6_ProductNameUnlessColon ==
    (Parsed /\ ~IsU16Pair(Arg) /\ ~IsHexPair(Arg)) =>
        /\ ~HasChar(Arg, ":") => (pc # "exit" /\ identifier = ProductName(Arg))
        /\ (/\ HasChar(Arg, ":")
            /\ Left(Arg, Find(Arg, ":")) # <<>>
            /\ Right(Arg, Find(Arg, ":")) # <<>>)
           => (ParseFailed /\ result = IoError("InvalidData", 0))

\* a name with a '/' that is no number pair
C6_Witness ==
    /\ Parsed /\ ~IsU16Pair(Arg) /\ ~IsHexPair(Arg)
    /\ HasChar(Arg, "/") /\ ~HasChar(Arg, ":")
    /\ identifier = ProductName(Arg)

(***************************************************************************)
(* C7 as stated: the control node is opened and the reset ioctl issued     *)
(* only after the argument parsed and find_device returned a device; the   *)
(* ioctl is issued at most once; and whenever find_device succeeds, the    *)
(* run issues the reset ioctl.                                             *)
(***************************************************************************)
Found == usbdev # NoDevice

OnlyAfterFound ==
    (openPath # NoPath \/ ioctlCalls # <<>>) => (identifier # NoIdentifier /\ FindDone /\ Found)

OpenFailed == pc = "exit" /\ openPath # NoPath /\ ioctlCalls = <<>>

C7_FoundMeansReset ==
    /\ OnlyAfterFound
    /\ Len(ioctlCalls) <= 1
    /\ (pc = "exit" /\ Found) => Len(ioctlCalls) = 1

(***************************************************************************)
(* C7 amended: as stated, but a found device is reset only when its        *)
(* control node opens: a run that finds a device ends with exactly one     *)
(* ioctl issued on the opened node, or with the open's error and none.     *)
(***************************************************************************)
C7_FoundAndOpenedMeansReset ==
    /\ OnlyAfterFound
    /\ Len(ioctlCalls) <= 1
    /\ (pc = "exit" /\ Found) =>
          \/ Len(ioctlCalls) = 1 /\ ioctlCalls[1].path = openPath /\ result.os = 0
          \/ OpenFailed /\ result.os \in OsErrnos
    /\ (pc = "exit" /\ ~Found) => (openPath = NoPath /\ ioctlCalls = <<>>)

\* a run that found its device and reset it
C7_Witness == pc = "exit" /\ Found /\ Len(ioctlCalls) = 1 /\ result = Success

(***************************************************************************)
(* C8 as stated: reset_device succeeds exactly when the control call       *)
(* returns 0; a non-zero status gives an Other-kind failure that carries   *)
(* the raw status; a failing open returns the OS's error and issues no     *)
(* control call.                                                           *)
(***************************************************************************)
OpenErrorReturned == OpenFailed => (result.os \in OsErrnos /\ result = OsError(result.os))

C8_FailureCarriesStatus ==
    /\ (pc = "exit" /\ ioctlCalls # <<>>) =>
          LET res == ioctlCalls[1].res IN
          /\ (result = Success) <=> (res = 0)
          /\ res # 0 => (result.kind = "Other" /\ result.os = res)
    /\ OpenErrorReturned

(***************************************************************************)
(* C8 amended: as stated, but the Other-kind failure carries nothing: the  *)
(* raw status is only printed, in the line "USB reset failed: {status}".   *)
(***************************************************************************)
C8_FailurePrintsStatus ==
    /\ (pc = "exit" /\ ioctlCalls # <<>>) =>
          LET res == ioctlCalls[1].res IN
          /\ (result = Success) <=> (res = 0)
          /\ res # 0 => /\ result = IoError("Other", 0)
                        /\ stdout[Len(stdout)] = Line("USB reset failed: ", res)
    /\ OpenErrorReturned

\* a control call that returned a positive status
C8_Witness == pc = "exit" /\ ioctlCalls # <<>> /\ ioctlCalls[1].res > 0 /\ result.kind = "Other"

(***************************************************************************)
(* C9 as stated: the node reset_device opens is the device-control root    *)
(* followed by the matched entry's busnum and devnum, each a zero-padded   *)
(* decimal segment of 3 digits, for any u16 bus and dev.                   *)
(***************************************************************************)
\* the two segments after the root and its separator
PathTail(p) == SubSeq(p, Len(USBDEVFS_PATH) + 2, Len(p))

BusSeg(p) == Left(PathTail(p), Find(PathTail(p), "/"))

DevSeg(p) == Right(PathTail(p), Find(PathTail(p), "/"))

UnderRoot(p) ==
    /\ Len(p) > Len(USBDEVFS_PATH) + 1
    /\ SubSeq(p, 1, Len(USBDEVFS_PATH)) = USBDEVFS_PATH
    /\ p[Len(USBDEVFS_PATH) + 1] = "/"
    /\ Find(PathTail(p), "/") > 0

Writes(seg, n) == IsDigits(seg, 10) /\ Value(seg, 10) = n

PathOfMatch(p) ==
    /\ idx \in 1..Len(registry)
    /\ Matches(identifier, registry[idx])
    /\ \A j \in 1..(idx - 1) : ~Matches(identifier, registry[j])
    /\ UnderRoot(p)
    /\ Writes(BusSeg(p), BusOf(registry[idx]))
    /\ Writes(DevSeg(p), DevOf(registry[idx]))

C9_ThreeDigitSegments ==
    openPath # NoPath =>
        /\ PathOfMatch(openPath)
        /\ Len(BusSeg(openPath)) = 3 /\ Len(DevSeg(openPath)) = 3

(***************************************************************************)
(* C9 amended: each segment is zero-padded to at least 3 digits: 3 digits  *)
(* for a number below 1000, and the number's own 4 or 5 digits, unpadded,  *)
(* from 1000 on.                                                           *)
(***************************************************************************)
MinThree(seg) == Len(seg) >= 3 /\ (Len(seg) > 3 => seg[1] # "0")

C9_AtLeastThreeDigitSegments ==
    openPath # NoPath =>
        /\ PathOfMatch(openPath)
        /\ MinThree(BusSeg(openPath)) /\ MinThree(DevSeg(openPath))

\* 1a2b:3c4d resolved to bus 2, dev 5: the node is .../002/005
C9_Witness ==
    /\ identifier = VendorProduct(6699, 15437)
    /\ usbdev = UsbDevFsEntry(2, 5)
    /\ BusSeg(openPath) = <<"0", "0", "2">> /\ DevSeg(openPath) = <<"0", "0", "5">>

(***************************************************************************)
(* C10: USBDEVFS_RESET fits in 32 bits and is the encoding with direction  *)
(* (bits 30-31) 0, size (bits 16-29) 0, type (bits 8-15) 'U' = 0x55 and    *)
(* number (bits 0-7) 20, that is 0x5514; every control call of every run   *)
(* passes that value.                                                      *)
(***************************************************************************)
C10_ResetCommand ==
    /\ USBDEVFS_RESET \div 2^16 < 2^16
    /\ (USBDEVFS_RESET \div 2^30) % 4 = 0
    /\ (USBDEVFS_RESET \div 2^16) % 2^14 = 0
    /\ (USBDEVFS_RESET \div 2^8) % 2^8 = 85
    /\ USBDEVFS_RESET % 2^8 = 20
    /\ \A k \in 1..Len(ioctlCalls) : ioctlCalls[k].cmd = 5 * 16^3 + 5 * 16^2 + 1 * 16 + 4

\* control calls on two different devices, from two kinds of identifier
C10_Witness ==
    /\ ioctlCalls # <<>>
    /\ identifier.type = "ProductName"
    /\ usbdev = UsbDevFsEntry(1000, 7)

====
